---- MODULE Spec2Model ----
(***************************************************************************)
(* A model of coax's Q-learning updater (coax/td_learning/_qlearning.py),  *)
(* of the n-step reward tracer and target-network synchronisation it is    *)
(* used with, of the DQN training loop (doc/examples/atari/dqn.py), of the *)
(* Ape-X worker (doc/examples/atari/apex_dqn.py) and of MetaPolicyEnv      *)
(* (coax/wrappers/_meta_policy.py).                                        *)
(*                                                                         *)
(* Numbers.  The program computes on floats.  In the updater part every    *)
(* number is an integer (rewards, values, the indicator In in {0, 1}); in  *)
(* the tracer part the discount is the rational gamma / GammaDen and Rn,   *)
(* In are exact fixed-point numbers with denominator GammaDen^n; a         *)
(* soft-update rate is tau / TauDen and the blended parameter is rounded   *)
(* to the nearest integer.  Float rounding is not modelled.                *)
(*                                                                         *)
(* Arrays.  A jax array is [ndim |-> its rank, v |-> its entries as nested *)
(* sequences, a bare number for rank 0].                                   *)
(***************************************************************************)
EXTENDS Integers, Sequences, FiniteSets, TLC

VARIABLES
    updater,    \* the QLearning object bound by the caller, or NoUpdater
    ctor,       \* the last constructor call: its q and pi_targ, and how it ended
    warned,     \* the warnings issued so far, in order
    call,       \* the target_func call in progress, or NoCall
    ret,        \* what that call returned or raised
    tracer,     \* the NStep reward tracer
    obs,        \* the environment's observations so far are 0..obs
    traj,       \* the transitions the environment has produced, in order
    emitted,    \* the batches popped from the tracer, in order
    loop,       \* the DQN script's position and local variables
    env_T,      \* env.T: the environment steps taken so far
    buffer,     \* the replay buffer's stored batches, oldest first
    heap,       \* the parameters of the value-function objects "q" and "q_copy"
    last_sync,  \* the last soft_update call: its arguments and result
    apex,       \* the Ape-X worker's last trace call and last learn call
    meta        \* the MetaPolicyEnv: its arms, its stored observation, its last step

qlvars == <<updater, ctor, warned, call, ret>>

trvars == <<tracer, obs, traj, emitted>>

dqnvars == <<loop, env_T, buffer, heap, last_sync>>

xvars == <<apex, meta>>

vars == <<updater, ctor, warned, call, ret, tracer, obs, traj, emitted,
          loop, env_T, buffer, heap, last_sync, apex, meta>>

(***************************************************************************)
(* Bounds                                                                  *)
(***************************************************************************)
NumActions == 2     \* k: the actions are 1..k
MaxWeight == 1      \* every parameter is in 0..MaxWeight

None == [kind |-> "None"]
NoException == "NoException"
NoUpdater == [kind |-> "NoUpdater"]
NoCall == [kind |-> "NoCall"]
NoRet == [kind |-> "NoRet"]

StateSpace == {0, 1}                \* observations
Actions == 1..NumActions
Rewards == {0, 1}                   \* values of Rn
Indicators == {0, 1}                \* values of In: 0, or gamma^n with gamma = 1
ParamIdx == {1, 2}
Params == [ParamIdx -> 0..MaxWeight]   \* a q-function's parameter set
PiParams == 0..MaxWeight               \* a policy's parameter set
Rngs == {0, 1}
BatchSizes == {1, 2}                \* the number of samples of a batch

Max(S) == CHOOSE x \in S : \A y \in S : y <= x

Range(f) == {f[i] : i \in DOMAIN f}

(***************************************************************************)
(* The value function and the policy: external collaborators, here a small *)
(* parameterised family.  out_rank says how the forward pass is shaped:    *)
(* "ok" gives type-2 output [batch, k] and type-1 output [batch]; "extra"  *)
(* carries a trailing axis of length 1; "squeezed" lacks the batch axis.   *)
(***************************************************************************)
ActionSpaces == {"Discrete", "Box"}
Policy == [kind |-> "Policy"]
OutRanks == {"ok", "extra", "squeezed"}

QFuncs == [action_space : ActionSpaces, out_rank : OutRanks]

func(params, s, a) == params[((a + s) % 2) + 1] * (s + 1) + (a % 2)

function_type2(q, params, rng, S) ==
    CASE q.out_rank = "ok" ->
            [ndim |-> 2, v |-> [i \in DOMAIN S |-> [a \in Actions |-> func(params, S[i], a)]]]
      [] q.out_rank = "extra" ->
            [ndim |-> 3, v |-> [i \in DOMAIN S |-> [a \in Actions |-> <<func(params, S[i], a)>>]]]
      [] q.out_rank = "squeezed" ->
            [ndim |-> 1, v |-> [a \in Actions |-> func(params, S[1], a)]]

function_type1(q, params, rng, S, A) ==
    CASE q.out_rank = "ok" ->
            [ndim |-> 1, v |-> [i \in DOMAIN S |-> func(params, S[i], A[i])]]
      [] q.out_rank = "extra" ->
            [ndim |-> 2, v |-> [i \in DOMAIN S |-> <<func(params, S[i], A[i])>>]]
      [] q.out_rank = "squeezed" ->
            [ndim |-> 0, v |-> func(params, S[1], A[1])]

\* pi_targ.function: the distribution's parameters, one per sample
pi_function(params, rng, S) == [i \in DOMAIN S |-> [mu |-> ((params + S[i]) % NumActions) + 1]]

\* proba_dist.mode / proba_dist.sample
mode(dist_params) == [i \in DOMAIN dist_params |-> dist_params[i].mu]

sample(dist_params, rng) ==
    [i \in DOMAIN dist_params |-> ((dist_params[i].mu - 1 + rng) % NumActions) + 1]

(***************************************************************************)
(* Value transforms: a pair (f, f_inv).                                    *)
(***************************************************************************)
identity == [kind |-> "identity"]

affine == [kind |-> "affine"]

ValueTransforms == {identity, affine}

transform_func(vt, x) == IF vt = identity THEN x ELSE 2 * x + 1

inverse_func(vt, y) == IF vt = identity THEN y ELSE (y - 1) \div 2

(***************************************************************************)
(* jax.numpy on these arrays.                                              *)
(***************************************************************************)
\* the first action's value where the greatest is meant
jnp_first_axis1(x) == [ndim |-> 1, v |-> [i \in DOMAIN x.v |-> x.v[i][1]]]

\* jnp.max(x, axis=1); an array without an axis 1 has none to reduce
jnp_max_axis1(x) ==
    CASE x.ndim = 2 -> [ndim |-> 1, v |-> [i \in DOMAIN x.v |-> Max(Range(x.v[i]))]]
      [] x.ndim = 3 ->
            [ndim |-> 2,
             v |-> [i \in DOMAIN x.v |-> <<Max({x.v[i][a][1] : a \in DOMAIN x.v[i]})>>]]
      [] OTHER -> [ndim |-> -1, v |-> "AxisError"]

\* the bootstrap term added whatever In is
bootstrap_unmasked(vt, Rn, In, Q_sa) ==
    [ndim |-> 1,
     v |-> [i \in DOMAIN Rn |-> transform_func(vt, Rn[i] + inverse_func(vt, Q_sa.v[i]))]]

\* f(Rn + In * f_inv(Q_sa)) with numpy's broadcasting; Rn and In are [batch]
bootstrap(vt, Rn, In, Q_sa) ==
    CASE Q_sa.ndim = 1 ->
            [ndim |-> 1,
             v |-> [i \in DOMAIN Rn |->
                      transform_func(vt, Rn[i] + In[i] * inverse_func(vt, Q_sa.v[i]))]]
      [] Q_sa.ndim = 0 ->
            [ndim |-> 1,
             v |-> [i \in DOMAIN Rn |->
                      transform_func(vt, Rn[i] + In[i] * inverse_func(vt, Q_sa.v))]]
      [] OTHER ->
            [ndim |-> 2,
             v |-> [i \in DOMAIN Q_sa.v |-> [j \in DOMAIN Rn |->
                      transform_func(vt, Rn[j] + In[j] * inverse_func(vt, Q_sa.v[i][1]))]]]

(***************************************************************************)
(* QLearning                                                               *)
(***************************************************************************)
Raise(exc, evals) == [kind |-> exc, evals |-> evals]

Return(G, evals) == [kind |-> "return", G |-> G, evals |-> evals]

\* BaseTDLearningQWithTargetPolicy.__init__: the attributes the subclass reads
base_init(q, pi_targ, q_targ, value_transform) ==
    [q |-> q,
     pi_targ |-> pi_targ,
     q_targ |-> IF q_targ = None THEN q ELSE q_targ,
     value_transform |-> IF value_transform = None THEN identity ELSE value_transform]

\* the first consistency check left out
missing_pi_targ_unchecked(self) == FALSE

\* the first consistency check: does the constructor raise TypeError
missing_pi_targ(self) == self.pi_targ = None /\ self.q.action_space # "Discrete"

\* the second consistency check: does the constructor warn
ignored_pi_targ(self) == self.pi_targ # None /\ self.q.action_space = "Discrete"

QLearning__init__(q, pi_targ, q_targ, value_transform) ==
    LET self == base_init(q, pi_targ, q_targ, value_transform)
    IN  IF missing_pi_targ(self)
        THEN [raised |-> "TypeError", self |-> NoUpdater, warnings |-> <<>>]
        ELSE [raised |-> NoException, self |-> self,
              warnings |-> IF ignored_pi_targ(self)
                           THEN <<"pi_targ is ignored, because action space is discrete">>
                           ELSE <<>>]

\* an assertion that checks nothing
ndim_unchecked(x, d) == TRUE

\* the condition of an `assert x.ndim == d`
ndim_is(x, d) == x.ndim = d

\* a sampled action where the greedy one is meant
sampled_action(dist_params, rng) == sample(dist_params, rng)

\* line 142: the greedy action of the continuous branch
greedy_action(dist_params, rng) == mode(dist_params)

\* lines 148-150: the check of Q_sa's rank and the transformed target
target_tail(self, Rn, In, Q_sa, evals) ==
    IF ~ndim_is(Q_sa, 1)
    THEN Raise("AssertionError", evals)
    ELSE Return(bootstrap(self.value_transform, Rn, In, Q_sa), evals)

\* lines 131-136
target_discrete(self, target_params, rng, Rn, In, S_next) ==
    LET Q_s == function_type2(self.q_targ, target_params.q_targ, rng, S_next)
        evals == <<"q_targ.function_type2">>
    IN  IF ~ndim_is(Q_s, 2)
        THEN Raise("AssertionError", evals)
        ELSE LET Q_sa == jnp_max_axis1(Q_s)
             IN  IF Q_sa.ndim = -1
                 THEN Raise("AxisError", evals)
                 ELSE target_tail(self, Rn, In, Q_sa, evals)

\* lines 138-146
target_continuous(self, target_params, rng, Rn, In, S_next) ==
    IF self.pi_targ = None
    THEN Raise("AttributeError", <<>>)
    ELSE LET dist_params == pi_function(target_params.pi_targ, rng, S_next)
             A_next == greedy_action(dist_params, rng)
             Q_sa == function_type1(self.q_targ, target_params.q_targ, rng, S_next, A_next)
         IN  target_tail(self, Rn, In, Q_sa,
                 <<"pi_targ.function", "pi_targ.proba_dist.mode", "q_targ.function_type1">>)

\* the branch taken by the presence of pi_targ, not by the action space
target_func_by_policy(self, target_params, rng, transition_batch) ==
    IF self.pi_targ = None
    THEN target_discrete(self, target_params, rng, transition_batch.Rn,
                         transition_batch.In, transition_batch.S_next)
    ELSE target_continuous(self, target_params, rng, transition_batch.Rn,
                           transition_batch.In, transition_batch.S_next)

\* line 131: the tests of the action space a call evaluates, with their results
action_space_checks(self) ==
    <<[test |-> "isinstance(self.q.action_space, Discrete)",
       result |-> self.q.action_space = "Discrete"]>>

target_func(self, target_params, rng, transition_batch) ==
    LET Rn == transition_batch.Rn
        In == transition_batch.In
        S_next == transition_batch.S_next
    IN  IF self.q.action_space = "Discrete"
        THEN target_discrete(self, target_params, rng, Rn, In, S_next)
        ELSE target_continuous(self, target_params, rng, Rn, In, S_next)

(***************************************************************************)
(* The updater's behaviour: construction, then calls of target_func.       *)
(***************************************************************************)
NoCtor == [kind |-> "NoCtor"]

\* the fields of a TransitionBatch that target_func reads, and A
TransitionBatches ==
    UNION {[A : [1..b -> Actions], Rn : [1..b -> Rewards],
            In : [1..b -> Indicators], S_next : [1..b -> StateSpace]] : b \in BatchSizes}

TargetParams(self) ==
    [q_targ : Params, pi_targ : IF self.pi_targ = None THEN {None} ELSE PiParams]

QLInit ==
    /\ updater = NoUpdater
    /\ ctor = NoCtor
    /\ warned = <<>>
    /\ call = NoCall
    /\ ret = NoRet

\* qlearning = QLearning(q, pi_targ=..., q_targ=..., value_transform=...)
Construct ==
    /\ updater = NoUpdater
    /\ \E q \in QFuncs, pi_targ \in {None, Policy}, q_targ_given \in BOOLEAN,
          value_transform \in {None} \cup ValueTransforms :
          LET q_targ == IF q_targ_given THEN q ELSE None
              r == QLearning__init__(q, pi_targ, q_targ, value_transform)
          IN  /\ ctor' = [q |-> q, pi_targ |-> pi_targ, raised |-> r.raised]
              /\ updater' = r.self
              /\ warned' = warned \o r.warnings
    /\ UNCHANGED <<xvars, call, ret, trvars, dqnvars>>

\* qlearning.target_func(target_params, target_state, rng, transition_batch)
TargetFuncCall ==
    /\ updater # NoUpdater
    /\ call = NoCall
    /\ \E target_params \in TargetParams(updater), rng \in Rngs,
          transition_batch \in TransitionBatches :
          /\ call' = [target_params |-> target_params, rng |-> rng,
                      transition_batch |-> transition_batch,
                      checks |-> action_space_checks(updater)]
          /\ ret' = target_func(updater, target_params, rng, transition_batch)
    /\ UNCHANGED <<xvars, updater, ctor, warned, trvars, dqnvars>>

\* the caller takes the result (or the exception) and goes on
TargetFuncReturn ==
    /\ call # NoCall
    /\ call' = NoCall
    /\ ret' = NoRet
    /\ UNCHANGED <<xvars, updater, ctor, warned, trvars, dqnvars>>

(***************************************************************************)
(* The n-step reward tracer, coax.reward_tracing.NStep.  The discount is   *)
(* gamma / GammaDen; a batch's Rn and In are in units of 1 / GammaDen^n.   *)
(* An observation is named by its number: the environment's k-th           *)
(* observation is k, so the state that follows the transition from s is    *)
(* s + 1, terminal or not, and a reset yields a fresh one.                 *)
(***************************************************************************)
GammaDen == 100
Gammas == {0, 99, 100}      \* gamma = 0, 0.99 and 1
MaxN == 3                   \* the horizons are 1..MaxN
MaxSteps == 5               \* the environment is stepped at most this often

RECURSIVE Pow(_, _)
Pow(b, e) == IF e = 0 THEN 1 ELSE b * Pow(b, e - 1)

Min(a, b) == IF a <= b THEN a ELSE b

\* NStep(n, gamma)
NStep(n, gamma) == [n |-> n, gamma |-> gamma, deque |-> <<>>, done |-> FALSE]

\* tracer.add(s, a, r, done)
NStep_add(tr, s, a, r, done) ==
    [tr EXCEPT !.deque = Append(@, [s |-> s, a |-> a, r |-> r]), !.done = done]

\* bool(tracer): is a batch ready
NStep_bool(tr) == Len(tr.deque) > 0 /\ (tr.done \/ Len(tr.deque) > tr.n)

\* the discounted sum of the first m pending rewards
RECURSIVE partial_return(_, _)
partial_return(tr, m) ==
    IF m = 0 THEN 0
    ELSE partial_return(tr, m - 1)
         + tr.deque[m].r * Pow(tr.gamma, m - 1) * Pow(GammaDen, tr.n - m + 1)

\* tracer.pop(): the batch of the oldest pending transition, and the tracer after
NStep_pop(tr) ==
    LET head == Head(tr.deque)
        rest == Tail(tr.deque)
        bootstrap_ok == Len(rest) >= tr.n
    IN  [tracer |-> [tr EXCEPT !.deque = rest],
         batch |-> [S |-> head.s,
                    A |-> head.a,
                    Rn |-> partial_return(tr, Min(tr.n, Len(tr.deque))),
                    In |-> IF bootstrap_ok THEN Pow(tr.gamma, tr.n) ELSE 0,
                    S_next |-> IF bootstrap_ok THEN rest[tr.n].s ELSE head.s]]

\* every batch the tracer has ready, in order, and the tracer after
RECURSIVE pop_all(_)
pop_all(tr) ==
    IF ~NStep_bool(tr)
    THEN [tracer |-> tr, batches |-> <<>>]
    ELSE LET rest == pop_all(NStep_pop(tr).tracer)
         IN  [tracer |-> rest.tracer, batches |-> <<NStep_pop(tr).batch>> \o rest.batches]

\* a = pi(s): the behaviour policy, a fixed function of the observation here
pi(s) == (s % NumActions) + 1

\* the call is tracer.add(s, a, r, done), but with done never passed on
add_args_not_done(s, a, r, done, s_next) == [s |-> s, a |-> a, r |-> r, done |-> FALSE]

\* the call is tracer.add(s, a, r, done), but with the state after the step
add_args_s_next(s, a, r, done, s_next) == [s |-> s_next, a |-> a, r |-> r, done |-> done]

\* what the loop passes to tracer.add after s_next, r, done, info = env.step(a)
add_args(s, a, r, done, s_next) == [s |-> s, a |-> a, r |-> r, done |-> done]

\* s_next, r, done, info = env.step(a) from observation s: the transition
env_step(s, a, r, done) == [s |-> s, a |-> a, r |-> r, done |-> done, s_next |-> s + 1]

\* the observation the next transition starts from: s_next, or, after a
\* terminal transition, what env.reset() returns
NextStart == IF traj # <<>> /\ traj[Len(traj)].done THEN obs + 1 ELSE obs

NoTrace == [kind |-> "NoTrace"]

NoLearn == [kind |-> "NoLearn"]

NoStep == [kind |-> "NoStep"]

\* self._s = None: no observation is stored (observations are 0, 1, ...)
NoObs == -1

\* the worker and the wrapper while they are not used
IdleX ==
    /\ apex = [trace |-> NoTrace, learn |-> NoLearn, learns |-> 0]
    /\ meta = [arms |-> <<>>, _s |-> NoObs, env_steps |-> 0, last |-> NoStep]

IdleTracer ==
    /\ tracer = NStep(1, 99)
    /\ obs = 0
    /\ traj = <<>>
    /\ emitted = <<>>

\* the DQN script's state while the script is not run
IdleLoop == [pc |-> "idle", s |-> 0, t |-> 0, s_next |-> 0, done |-> FALSE,
             updated |-> FALSE, synced |-> FALSE, avail |-> <<>>, buf0 |-> <<>>]

NoSync == [kind |-> "NoSync"]

IdleDqn ==
    /\ loop = IdleLoop
    /\ env_T = 0
    /\ buffer = <<>>
    /\ heap = [o \in {"q", "q_copy"} |-> [i \in ParamIdx |-> 0]]
    /\ last_sync = NoSync

TrInit ==
    /\ \E n \in 1..MaxN, gamma \in Gammas : tracer = NStep(n, gamma)
    /\ obs = 0
    /\ traj = <<>>
    /\ emitted = <<>>
    /\ QLInit
    /\ IdleDqn
    /\ IdleX

\* one environment step and the tracer.add that follows it; a tracer that
\* holds a finished episode is drained first
TrAdd ==
    /\ Len(traj) < MaxSteps
    /\ ~(tracer.done /\ Len(tracer.deque) > 0)
    /\ \E r \in Rewards, done \in BOOLEAN :
          LET s == NextStart
              tn == env_step(s, pi(s), r, done)
              args == add_args(tn.s, tn.a, tn.r, tn.done, tn.s_next)
          IN  /\ traj' = Append(traj, tn)
              /\ obs' = tn.s_next
              /\ tracer' = NStep_add(tracer, args.s, args.a, args.r, args.done)
    /\ UNCHANGED <<xvars, emitted, qlvars, dqnvars>>

\* while tracer: ... tracer.pop()
TrPop ==
    /\ NStep_bool(tracer)
    /\ tracer' = NStep_pop(tracer).tracer
    /\ emitted' = Append(emitted, NStep_pop(tracer).batch)
    /\ UNCHANGED <<xvars, obs, traj, qlvars, dqnvars>>

TrNext == TrAdd \/ TrPop

(***************************************************************************)
(* Target-network synchronisation and the learning update.                 *)
(***************************************************************************)
TauDen == 1000

\* target.soft_update(source, tau), on each parameter:
\* (1 - tau) * target + tau * source
soft_update(target, source, tau) ==
    [i \in DOMAIN target |->
        ((TauDen - tau) * target[i] + tau * source[i] + TauDen \div 2) \div TauDen]

\* the updater's target network is q itself (no copy was made)
q_targ_alias == "q"

\* q_targ = q.copy(): the object the updater and the loop use as target
q_targ_object == "q_copy"

\* qlearning.update(batch): one optimizer step on the trained q's parameters
update(h, new_params) == [h EXCEPT !["q"] = new_params]

\* tau = 0.001, the rate of the Ape-X worker
sync_tau_polyak == 1

\* tau = 1 in q_targ.soft_update(q, tau=1)
sync_tau == TauDen

(***************************************************************************)
(* The replay buffer, coax.experience_replay.SimpleReplayBuffer.           *)
(***************************************************************************)
\* buffer.add(batch): the oldest batch makes room once capacity is reached
buffer_add(buf, batch, capacity) ==
    IF Len(buf) >= capacity THEN Append(Tail(buf), batch) ELSE Append(buf, batch)

(***************************************************************************)
(* The DQN script.  Its constants are scaled down: TotalSteps for 3000000, *)
(* WarmUp for 50000, SyncPeriod for 10000, BatchSize for 32, Capacity for  *)
(* 1000000, MaxEpisodeSteps for env.spec.max_episode_steps.                *)
(***************************************************************************)
TotalSteps == 4
MaxEpisodeSteps == 3
WarmUp == 2
SyncPeriod == 2
BatchSize == 2
Capacity == 3

\* the warm-up test passed by any buffer that is not empty
warmed_up_nonempty(buf) == Len(buf) > 0

\* len(buffer) > 50000
warmed_up(buf) == Len(buf) > WarmUp

\* the drain as `if tracer:`, one pop at most
drain_once(tr, popped) == popped = 0 /\ NStep_bool(tr)

\* while tracer: the loop's test, after `popped` pops
drain_continues(tr, popped) == NStep_bool(tr)

\* the reward of env.step: the environment's own function of state and action
reward(s, a) == (s + a) % 2

\* lines 44-55: q, q_targ = q.copy(), the updater, the tracer and the buffer
DqnInit ==
    /\ loop = [IdleLoop EXCEPT !.pc = "while"]
    /\ env_T = 0
    /\ buffer = <<>>
    /\ \E params \in Params : heap = [o \in {"q", "q_copy"} |-> params]
    /\ last_sync = NoSync
    /\ tracer = NStep(1, 99)
    /\ obs = 0
    /\ traj = <<>>
    /\ emitted = <<>>
    /\ QLInit
    /\ IdleX

\* while env.T < 3000000: s = env.reset()
DqnReset ==
    /\ loop.pc = "while"
    /\ env_T < TotalSteps
    /\ obs' = obs + 1
    /\ loop' = [loop EXCEPT !.pc = "for", !.s = obs + 1, !.t = 0]
    /\ UNCHANGED <<xvars, env_T, buffer, heap, last_sync, tracer, traj, emitted, qlvars>>

\* the while loop ends
DqnEnd ==
    /\ loop.pc = "while"
    /\ ~(env_T < TotalSteps)
    /\ loop' = [loop EXCEPT !.pc = "end"]
    /\ UNCHANGED <<xvars, env_T, buffer, heap, last_sync, trvars, qlvars>>

\* a = pi(s); s_next, r, done, info = env.step(a); tracer.add(s, a, r, done)
DqnStep ==
    /\ loop.pc = "for"
    /\ loop.t < MaxEpisodeSteps
    /\ \E done \in BOOLEAN :
          LET a == pi(loop.s)
              tn == env_step(loop.s, a, reward(loop.s, a), done)
              args == add_args(tn.s, tn.a, tn.r, tn.done, tn.s_next)
          IN  /\ obs' = tn.s_next
              /\ env_T' = env_T + 1
              /\ tracer' = NStep_add(tracer, args.s, args.a, args.r, args.done)
              /\ loop' = [loop EXCEPT !.pc = "drain", !.s_next = tn.s_next, !.done = tn.done,
                                      !.updated = FALSE, !.synced = FALSE,
                                      !.avail = pop_all(tracer').batches, !.buf0 = buffer]
    /\ emitted' = <<>>
    /\ UNCHANGED <<xvars, buffer, heap, last_sync, traj, qlvars>>

\* the for loop has run max_episode_steps times
DqnForExhausted ==
    /\ loop.pc = "for"
    /\ ~(loop.t < MaxEpisodeSteps)
    /\ loop' = [loop EXCEPT !.pc = "while"]
    /\ UNCHANGED <<xvars, env_T, buffer, heap, last_sync, trvars, qlvars>>

\* while tracer: buffer.add(tracer.pop())
DqnDrainPop ==
    /\ loop.pc = "drain"
    /\ drain_continues(tracer, Len(emitted))
    /\ tracer' = NStep_pop(tracer).tracer
    /\ buffer' = buffer_add(buffer, NStep_pop(tracer).batch, Capacity)
    /\ emitted' = Append(emitted, NStep_pop(tracer).batch)
    /\ UNCHANGED <<xvars, loop, env_T, heap, last_sync, obs, traj, qlvars>>

DqnDrainExit ==
    /\ loop.pc = "drain"
    /\ ~drain_continues(tracer, Len(emitted))
    /\ loop' = [loop EXCEPT !.pc = "learn"]
    /\ UNCHANGED <<xvars, env_T, buffer, heap, last_sync, trvars, qlvars>>

\* if len(buffer) > 50000: qlearning.update(buffer.sample(batch_size=32))
DqnLearn ==
    /\ loop.pc = "learn"
    /\ warmed_up(buffer)
    /\ IF Len(buffer) >= BatchSize
       THEN \E new_params \in Params :
               /\ heap' = update(heap, new_params)
               /\ loop' = [loop EXCEPT !.pc = "sync", !.updated = TRUE]
       ELSE /\ heap' = heap
            /\ loop' = [loop EXCEPT !.pc = "ValueError"]
    /\ UNCHANGED <<xvars, env_T, buffer, last_sync, trvars, qlvars>>

DqnSkipLearn ==
    /\ loop.pc = "learn"
    /\ ~warmed_up(buffer)
    /\ loop' = [loop EXCEPT !.pc = "sync"]
    /\ UNCHANGED <<xvars, env_T, buffer, heap, last_sync, trvars, qlvars>>

\* if env.T % 10000 == 0: q_targ.soft_update(q, tau=1)
DqnSync ==
    /\ loop.pc = "sync"
    /\ env_T % SyncPeriod = 0
    /\ LET after == soft_update(heap[q_targ_object], heap["q"], sync_tau)
       IN  /\ heap' = [heap EXCEPT ![q_targ_object] = after]
           /\ last_sync' = [tau |-> sync_tau, before |-> heap[q_targ_object],
                            source |-> heap["q"], after |-> after]
    /\ loop' = [loop EXCEPT !.pc = "brk", !.synced = TRUE]
    /\ UNCHANGED <<xvars, env_T, buffer, trvars, qlvars>>

DqnSkipSync ==
    /\ loop.pc = "sync"
    /\ ~(env_T % SyncPeriod = 0)
    /\ loop' = [loop EXCEPT !.pc = "brk"]
    /\ UNCHANGED <<xvars, env_T, buffer, heap, last_sync, trvars, qlvars>>

\* if done: break
DqnBreak ==
    /\ loop.pc = "brk"
    /\ loop.done
    /\ loop' = [loop EXCEPT !.pc = "while"]
    /\ UNCHANGED <<xvars, env_T, buffer, heap, last_sync, trvars, qlvars>>

\* s = s_next, and the next round of the for loop
DqnContinue ==
    /\ loop.pc = "brk"
    /\ ~loop.done
    /\ loop' = [loop EXCEPT !.pc = "for", !.s = loop.s_next, !.t = loop.t + 1]
    /\ UNCHANGED <<xvars, env_T, buffer, heap, last_sync, trvars, qlvars>>

DqnNext ==
    \/ DqnReset \/ DqnEnd \/ DqnStep \/ DqnForExhausted
    \/ DqnDrainPop \/ DqnDrainExit \/ DqnLearn \/ DqnSkipLearn
    \/ DqnSync \/ DqnSkipSync \/ DqnBreak \/ DqnContinue

SpecDQN == DqnInit /\ [][DqnNext]_vars

\* the script is one sequential process: it always takes its next step
SpecDQNLive == DqnInit /\ [][DqnNext]_vars /\ WF_vars(DqnNext)

SpecTracer == TrInit /\ [][TrNext]_vars

(***************************************************************************)
(* The Ape-X worker (doc/examples/atari/apex_dqn.py): trace and learn.     *)
(* The updater is built with q_targ = q.copy() and the tracer is           *)
(* NStep(n=1, gamma=0.99); the log-propensity passed along with a          *)
(* transition is not modelled.  A buffer entry is a batch and its          *)
(* priority.                                                               *)
(***************************************************************************)
ApexSteps == 3
ApexLearns == 1

Abs(x) == IF x < 0 THEN -x ELSE x

\* tracer.flush(): the batches of all pending transitions
NStep_flush(tr) == pop_all(tr)

\* q_updater.td_error(batch): |target - prediction|, in units of 1 / GammaDen
td_error(h, batch) ==
    LET prediction == func(h["q"], batch.S, batch.A)
        Q_next == Max({func(h[q_targ_object], batch.S_next, a) : a \in Actions})
    IN  Abs(batch.Rn + batch.In * Q_next - GammaDen * prediction)

\* tau = 0.001 in self.q_targ.soft_update(self.q, tau=0.001)
worker_tau == TauDen \div 1000

\* the flush is left out
trace_flushes_never(done) == FALSE

\* line 46: if done
trace_flushes(done) == done

\* ApexWorker.trace(s, a, r, done, logp): the state after, and the calls made
ApexWorker_trace(tr, h, buf, s, a, r, done) ==
    LET tr1 == NStep_add(tr, s, a, r, done)
        h1 == [h EXCEPT ![q_targ_object] = soft_update(h[q_targ_object], h["q"], worker_tau)]
        flushed == NStep_flush(tr1)
        entries == [i \in DOMAIN flushed.batches |->
                       [batch |-> flushed.batches[i],
                        priority |-> td_error(h1, flushed.batches[i])]]
    IN  IF trace_flushes(done)
        THEN [tracer |-> flushed.tracer, heap |-> h1, buffer |-> buf \o entries,
              added |-> entries,
              calls |-> <<"tracer.add", "q_targ.soft_update", "tracer.flush",
                          "q_updater.td_error", "buffer_add", "push_setattr">>]
        ELSE [tracer |-> tr1, heap |-> h1, buffer |-> buf, added |-> <<>>,
              calls |-> <<"tracer.add", "q_targ.soft_update">>]

\* line 52: def learn(self, transition_batch), the parameters after self
ApexWorker_learn_params == <<"transition_batch">>

\* a call of a method: the arguments are bound to the parameters, or TypeError
bind_args(params, args) == IF Len(args) = Len(params) THEN NoException ELSE "TypeError"

\* ApexWorker.learn(transition_batch): the state after, the calls made, and
\* how the call ended
ApexWorker_learn(h, buf, idx, new_params) ==
    LET h1 == update(h, new_params)
        td == td_error(h1, buf[idx].batch)
        metrics == [loss |-> td]
        bound == bind_args(ApexWorker_learn_params, <<idx, td>>)
    IN  IF bound # NoException
        THEN [heap |-> h1, buffer |-> buf, raised |-> bound, returned |-> None,
              calls |-> <<"q_updater.update", "self.learn">>, priority_writes |-> <<>>,
              metrics |-> metrics]
        ELSE [heap |-> h1, buffer |-> buf, raised |-> "RecursionError", returned |-> None,
              calls |-> <<"q_updater.update", "self.learn">>, priority_writes |-> <<>>,
              metrics |-> metrics]

\* lines 79-88: q, the updater with its target copy, the tracer; an empty buffer
ApexInit ==
    /\ \E params \in Params : heap = [o \in {"q", "q_copy"} |-> params]
    /\ tracer = NStep(1, 99)
    /\ buffer = <<>>
    /\ env_T = 0
    /\ obs = 0
    /\ apex = [trace |-> NoTrace, learn |-> NoLearn, learns |-> 0]
    /\ meta = [arms |-> <<>>, _s |-> NoObs, env_steps |-> 0, last |-> NoStep]
    /\ loop = IdleLoop
    /\ last_sync = NoSync
    /\ traj = <<>>
    /\ emitted = <<>>
    /\ QLInit

\* the rollout: one environment step from the current observation (after a
\* terminal step, from the observation of a reset), then worker.trace
ApexTrace ==
    /\ env_T < ApexSteps
    /\ \E done \in BOOLEAN :
          LET s == IF apex.trace # NoTrace /\ apex.trace.done THEN obs + 1 ELSE obs
              tn == env_step(s, pi(s), reward(s, pi(s)), done)
              after == ApexWorker_trace(tracer, heap, buffer, tn.s, tn.a, tn.r, tn.done)
          IN  /\ obs' = tn.s_next
              /\ tracer' = after.tracer
              /\ heap' = after.heap
              /\ buffer' = after.buffer
              /\ apex' = [apex EXCEPT !.trace =
                            [s |-> tn.s, done |-> tn.done, calls |-> after.calls,
                             added |-> after.added, pending |-> Len(tracer.deque) + 1]]
    /\ env_T' = env_T + 1
    /\ UNCHANGED <<loop, last_sync, traj, emitted, meta, qlvars>>

\* the learner: worker.learn(batch) on a batch of the buffer
ApexLearn ==
    /\ buffer # <<>>
    /\ apex.learns < ApexLearns
    /\ \E idx \in DOMAIN buffer, new_params \in Params :
          LET after == ApexWorker_learn(heap, buffer, idx, new_params)
          IN  /\ heap' = after.heap
              /\ buffer' = after.buffer
              /\ apex' = [apex EXCEPT !.learns = @ + 1, !.learn =
                            [idx |-> idx, calls |-> after.calls, raised |-> after.raised,
                             returned |-> after.returned, metrics |-> after.metrics,
                             priority_writes |-> after.priority_writes]]
    /\ UNCHANGED <<tracer, obs, env_T, loop, last_sync, traj, emitted, meta, qlvars>>

ApexNext == ApexTrace \/ ApexLearn

SpecApex == ApexInit /\ [][ApexNext]_vars

(***************************************************************************)
(* MetaPolicyEnv (coax/wrappers/_meta_policy.py).  An arm is a callable;   *)
(* what matters of it is whether its signature has return_logp, which      *)
(* action it returns for an observation and with which log-propensity.     *)
(* A dict is the set of its <<key, value>> pairs.                          *)
(***************************************************************************)
MaxArms == 2
MetaObs == 3

Arms == [return_logp : BOOLEAN, shift : {0, 1}]

\* pi(s, return_logp=True): the arm's action and its log-propensity
arm_call(arm, s) == [a |-> ((s + arm.shift) % NumActions) + 1, logp |-> -(arm.shift + 1)]

\* what the wrapped environment's step may return as info
EnvInfos == {"None", "empty", "lives", "a"}

\* info or {}
info_or_empty(info) ==
    CASE info = "lives" -> {<<"lives", 3>>}
      [] info = "a" -> {<<"a", 0>>}
      [] OTHER -> {}

\* d.update(kv)
dict_update(d, kv) == {p \in d : \A q \in kv : q[1] # p[1]} \cup kv

\* t[i] of a tuple: a negative index counts from the end
tuple_getitem(tup, i) ==
    IF i >= 0 /\ i < Len(tup) THEN [raised |-> NoException, item |-> tup[i + 1]]
    ELSE IF i < 0 /\ -i <= Len(tup) THEN [raised |-> NoException, item |-> tup[Len(tup) + i + 1]]
    ELSE [raised |-> "IndexError", item |-> None]

\* a space that contains everything
contains_anything(n, a_meta) == TRUE

\* gym.spaces.Discrete(n).contains(a_meta)
Discrete_contains(n, a_meta) == a_meta \in 0..(n - 1)

\* the arm called without regard to a_meta
first_arm(arms, a_meta) == tuple_getitem(arms, 0)

\* line 66: pi = self.arms[a_meta]
select_arm(arms, a_meta) == tuple_getitem(arms, a_meta)

\* MetaPolicyEnv.step(a_meta) with the stored observation s, when the wrapped
\* environment's step returns s_next and info
MetaPolicyEnv_step(self, a_meta, s_next, info) ==
    LET failed(exc) == [raised |-> exc, _s |-> self._s, arm_calls |-> <<>>,
                        env_actions |-> <<>>, info |-> {}]
        chosen == select_arm(self.arms, a_meta)
    IN  IF ~Discrete_contains(Len(self.arms), a_meta) THEN failed("AssertionError")
        ELSE IF self._s = NoObs THEN failed("AssertionError")
        ELSE IF chosen.raised # NoException THEN failed(chosen.raised)
        ELSE LET arm == chosen.item
                 out == arm_call(arm, self._s)
                 logp == IF arm.return_logp THEN out.logp ELSE 0
             IN  [raised |-> NoException,
                  _s |-> s_next,
                  arm_calls |-> <<[arm |-> arm, s |-> self._s]>>,
                  env_actions |-> <<out.a>>,
                  info |-> dict_update(info_or_empty(info), {<<"a", out.a>>, <<"logp", logp>>})]

RECURSIVE SeqsUpTo(_, _)
SeqsUpTo(S, n) ==
    IF n = 0 THEN {<<>>}
    ELSE SeqsUpTo(S, n - 1) \cup {Append(q, x) : q \in SeqsUpTo(S, n - 1), x \in S}

\* MetaPolicyEnv(env, *arms)
MetaInit ==
    /\ \E arms \in SeqsUpTo(Arms, MaxArms) \ {<<>>} :
          meta = [arms |-> arms, _s |-> NoObs, env_steps |-> 0, last |-> NoStep]
    /\ apex = [trace |-> NoTrace, learn |-> NoLearn, learns |-> 0]
    /\ obs = 0
    /\ tracer = NStep(1, 99)
    /\ traj = <<>>
    /\ emitted = <<>>
    /\ IdleDqn
    /\ QLInit

\* MetaPolicyEnv.reset()
MetaReset ==
    /\ obs < MetaObs
    /\ obs' = obs + 1
    /\ meta' = [meta EXCEPT !._s = obs + 1]
    /\ UNCHANGED <<apex, tracer, traj, emitted, dqnvars, qlvars>>

\* MetaPolicyEnv.step(a_meta), for a_meta in range and out of range
MetaStep ==
    /\ obs < MetaObs
    /\ \E a_meta \in -1..MaxArms, info \in EnvInfos :
          LET r == MetaPolicyEnv_step(meta, a_meta, obs + 1, info)
          IN  /\ meta' = [meta EXCEPT
                    !._s = r._s,
                    !.env_steps = @ + Len(r.env_actions),
                    !.last = [a_meta |-> a_meta, s_before |-> meta._s, env_obs |-> obs,
                              s_after |-> r._s, raised |-> r.raised,
                              arm_calls |-> r.arm_calls, env_actions |-> r.env_actions,
                              info |-> r.info]]
              /\ obs' = obs + Len(r.env_actions)
    /\ UNCHANGED <<apex, tracer, traj, emitted, dqnvars, qlvars>>

MetaNext == MetaReset \/ MetaStep

SpecMeta == MetaInit /\ [][MetaNext]_vars

QLNext == Construct \/ TargetFuncCall \/ TargetFuncReturn

Init == QLInit /\ IdleTracer /\ IdleDqn /\ IdleX

Next == QLNext

Spec == Init /\ [][Next]_vars

(***************************************************************************)
(* Claims about the updater, checked under Spec.                           *)
(***************************************************************************)
InCall == call # NoCall

Batch == call.transition_batch

Samples == DOMAIN call.transition_batch.Rn

\* f(Rn + In * f_inv(q)) for sample i of the call's batch
TargetOf(i, q) ==
    transform_func(updater.value_transform,
                   Batch.Rn[i] + Batch.In[i] * inverse_func(updater.value_transform, q))

\* the target network's value of action a at sample i's bootstrap state
QTarg(i, a) == func(call.target_params.q_targ, Batch.S_next[i], a)

\* C1: for a discrete action space (and a well-shaped value function) every
\* sample's target is f(Rn + In * f_inv(Q_sa)) with Q_sa the greatest of the
\* target network's k action values at S_next, and the target is the same for
\* every action array A the batch could hold.
C1_DiscreteTargetIsMax ==
    (InCall /\ updater.q.action_space = "Discrete" /\ updater.q_targ.out_rank = "ok") =>
        /\ ret.kind = "return"
        /\ ret.evals = <<"q_targ.function_type2">>
        /\ ret.G.ndim = 1
        /\ DOMAIN ret.G.v = Samples
        /\ \A i \in Samples :
              \E a \in Actions :
                  /\ \A b \in Actions : QTarg(i, b) <= QTarg(i, a)
                  /\ ret.G.v[i] = TargetOf(i, QTarg(i, a))
        /\ \A A2 \in [Samples -> Actions] :
              target_func(updater, call.target_params, call.rng,
                          [Batch EXCEPT !.A = A2]) = ret

C1_Witness ==
    /\ InCall
    /\ updater.q.action_space = "Discrete"
    /\ ret.kind = "return"
    /\ Cardinality(Samples) = 2
    /\ Batch.A[1] # Batch.A[2]
    /\ \A i \in Samples : Batch.In[i] = 1
    /\ \E i \in Samples : \E b \in Actions : QTarg(i, Batch.A[i]) < QTarg(i, b)
    /\ ret.G.v[1] # ret.G.v[2]

\* the target policy's greedy action at sample i's bootstrap state
ANext(i) == mode(pi_function(call.target_params.pi_targ, call.rng, Batch.S_next))[i]

\* C2: for a non-discrete action space (and a well-shaped value function) the
\* target is f(Rn + In * f_inv(Q_targ(S_next, A_next))), A_next the mode of
\* the target policy at S_next and Q_targ evaluated in type-1 mode; it is the
\* same for every random key, and Rn + In * Q_targ(S_next, A_next) under the
\* identity transform.
C2_ContinuousTargetUsesMode ==
    (InCall /\ updater.q.action_space # "Discrete" /\ updater.q_targ.out_rank = "ok") =>
        /\ ret.kind = "return"
        /\ ret.evals = <<"pi_targ.function", "pi_targ.proba_dist.mode", "q_targ.function_type1">>
        /\ ret.G.ndim = 1
        /\ DOMAIN ret.G.v = Samples
        /\ \A i \in Samples : ret.G.v[i] = TargetOf(i, QTarg(i, ANext(i)))
        /\ updater.value_transform = identity =>
              \A i \in Samples : ret.G.v[i] = Batch.Rn[i] + Batch.In[i] * QTarg(i, ANext(i))
        /\ \A rng \in Rngs :
              target_func(updater, call.target_params, rng, Batch) = ret

C2_Witness ==
    /\ InCall
    /\ updater.q.action_space # "Discrete"
    /\ ret.kind = "return"
    /\ updater.value_transform = affine
    /\ call.rng = 1
    /\ \E i \in Samples :
          /\ Batch.In[i] = 1
          /\ QTarg(i, ANext(i)) # QTarg(i, sample(pi_function(call.target_params.pi_targ,
                                                   call.rng, Batch.S_next), call.rng)[i])

\* C3: a constructor call with a non-discrete action space and no pi_targ
\* raises TypeError and binds no updater; so an updater, once there is one,
\* never has that configuration, and target_func only runs on an updater.
C3_MissingPiTargFailsConstruction ==
    /\ (ctor # NoCtor /\ ctor.q.action_space # "Discrete" /\ ctor.pi_targ = None) =>
          (ctor.raised = "TypeError" /\ updater = NoUpdater)
    /\ updater # NoUpdater =>
          ~(updater.q.action_space # "Discrete" /\ updater.pi_targ = None)
    /\ InCall =>
          (updater # NoUpdater /\ ret.kind # "AttributeError")

C3_Witness ==
    /\ ctor # NoCtor
    /\ ctor.q.action_space = "Box"
    /\ ctor.pi_targ = None
    /\ ctor.raised = "TypeError"
    /\ updater = NoUpdater

\* the same updater built without pi_targ
WithoutPiTarg(self) == [self EXCEPT !.pi_targ = None]

\* C4: a constructor call with a discrete action space and a pi_targ succeeds
\* and warns once; every target_func call on that updater returns what the
\* updater built without pi_targ returns, whatever the policy's parameters,
\* and never evaluates the policy.
C4_IgnoredPiTargOnlyWarns ==
    /\ (ctor # NoCtor /\ ctor.q.action_space = "Discrete" /\ ctor.pi_targ # None) =>
          /\ ctor.raised = NoException
          /\ updater # NoUpdater
          /\ warned = <<"pi_targ is ignored, because action space is discrete">>
    /\ (InCall /\ updater.q.action_space = "Discrete" /\ updater.pi_targ # None) =>
          /\ ret = target_func(WithoutPiTarg(updater),
                               [call.target_params EXCEPT !.pi_targ = None],
                               call.rng, Batch)
          /\ \A p \in PiParams :
                ret = target_func(updater, [call.target_params EXCEPT !.pi_targ = p],
                                  call.rng, Batch)
          /\ \A j \in DOMAIN ret.evals : ret.evals[j] # "pi_targ.function"

C4_Witness ==
    /\ InCall
    /\ updater.q.action_space = "Discrete"
    /\ updater.pi_targ # None
    /\ warned # <<>>
    /\ ret.kind = "return"
    /\ \E i \in Samples :
          Batch.In[i] = 1 /\ \E b \in Actions : QTarg(i, ANext(i)) < QTarg(i, b)

\* the rank of the bootstrap value the call's branch produced, and of the
\* type-2 table in the discrete branch
QsOfCall == function_type2(updater.q_targ, call.target_params.q_targ, call.rng, Batch.S_next)

QsaOfCall ==
    IF updater.q.action_space = "Discrete"
    THEN jnp_max_axis1(QsOfCall)
    ELSE function_type1(updater.q_targ, call.target_params.q_targ, call.rng, Batch.S_next,
                        mode(pi_function(call.target_params.pi_targ, call.rng, Batch.S_next)))

BadShape ==
    \/ updater.q.action_space = "Discrete" /\ QsOfCall.ndim # 2
    \/ QsaOfCall.ndim # 1

\* C5: a call whose bootstrap value is not one-dimensional (or, discrete
\* branch, whose type-2 table is not two-dimensional) raises AssertionError
\* and returns no target; a target that is returned is one-dimensional, one
\* entry per sample.
C5_BadShapeIsAssertionError ==
    InCall =>
        /\ BadShape => ret.kind = "AssertionError"
        /\ ret.kind = "return" =>
              (~BadShape /\ ret.G.ndim = 1 /\ DOMAIN ret.G.v = Samples)

C5_Witness ==
    /\ InCall
    /\ BadShape
    /\ updater.q_targ.out_rank = "extra"
    /\ Cardinality(Samples) = 2
    /\ ret.kind = "AssertionError"

(***************************************************************************)
(* Claims about the reward tracer, checked under SpecTracer.               *)
(***************************************************************************)
\* the place in traj of the transition that starts from observation s, or 0
PosOf(s) == IF \E p \in DOMAIN traj : traj[p].s = s
            THEN CHOOSE p \in DOMAIN traj : traj[p].s = s
            ELSE 0

\* the window of the batch that starts at place p: places p .. p+n-1
TerminalInWindow(p) ==
    \E q \in p..(p + tracer.n - 1) : q \in DOMAIN traj /\ traj[q].done

\* gamma^n, in units of 1 / GammaDen^n
GammaN == Pow(tracer.gamma, tracer.n)

\* C6: every emitted batch starts at an added transition; if a terminal
\* transition lies in its window (the n places from its start) its In is 0,
\* and otherwise its In is gamma^n.
C6_IndicatorMatchesTerminal ==
    \A j \in DOMAIN emitted :
        LET p == PosOf(emitted[j].S)
        IN  /\ p # 0
            /\ emitted[j].In = IF TerminalInWindow(p) THEN 0 ELSE GammaN

C6_Witness ==
    /\ tracer.n = 2
    /\ tracer.gamma = 99
    /\ \E j \in DOMAIN emitted : emitted[j].In = 0
    /\ \E j \in DOMAIN emitted : emitted[j].In = 99 * 99

\* the last transition produced is terminal and the tracer has no batch ready
DrainedAfterTerminal ==
    /\ traj # <<>>
    /\ traj[Len(traj)].done
    /\ ~NStep_bool(tracer)

\* C7: once a trajectory has ended in a terminal transition and the tracer
\* is drained, every transition added so far is the start of exactly one
\* emitted batch, and nothing is left pending.
C7_EveryTransitionEmittedOnce ==
    DrainedAfterTerminal =>
        /\ tracer.deque = <<>>
        /\ \A p \in DOMAIN traj :
              Cardinality({j \in DOMAIN emitted :
                              emitted[j].S = traj[p].s /\ emitted[j].A = traj[p].a}) = 1
        /\ Len(emitted) = Len(traj)

C7_Witness ==
    /\ DrainedAfterTerminal
    /\ tracer.n = 3
    /\ Len(traj) = 5
    /\ traj[2].done
    /\ Len(emitted) = 5

\* the i-th emitted batch is the one-step batch of the i-th transition, but
\* for S_next
OneStepBatch(i) ==
    /\ emitted[i].S = traj[i].s
    /\ emitted[i].A = traj[i].a
    /\ emitted[i].Rn = traj[i].r * GammaDen
    /\ emitted[i].In = IF traj[i].done THEN 0 ELSE tracer.gamma

SoftUpdateEndpoints ==
    \A target \in Params, source \in Params :
        /\ soft_update(target, source, TauDen) = source
        /\ soft_update(target, source, 0) = target

\* C9: soft_update with tau = 1 leaves the target's parameters equal to the
\* source's and with tau = 0 leaves them as they were, whatever the two
\* parameter sets; and in the DQN loop, right after a step's
\* q_targ.soft_update(q, tau=1), the target's parameters are the trained ones.
C9_HardUpdateCopies ==
    /\ SoftUpdateEndpoints
    /\ last_sync # NoSync =>
          (last_sync.tau = TauDen /\ last_sync.after = last_sync.source)
    /\ (loop.pc = "brk" /\ loop.synced) => heap[q_targ_object] = heap["q"]

C9_Witness ==
    /\ loop.pc = "brk"
    /\ loop.synced
    /\ loop.updated
    /\ last_sync.before # last_sync.source
    /\ heap[q_targ_object] = heap["q"]

\* C10: with q_targ = q.copy(), no step of the DQN loop but the soft_update
\* of a step whose env.T is a multiple of the period changes the target's
\* parameters; qlearning.update changes the trained parameters only.
C10_TargetChangesOnlyAtSync ==
    [][/\ heap'[q_targ_object] # heap[q_targ_object] =>
             (loop.pc = "sync" /\ env_T % SyncPeriod = 0)
       /\ loop.pc = "learn" => heap'[q_targ_object] = heap[q_targ_object]]_vars

C10_Witness ==
    /\ loop.pc = "brk"
    /\ loop.updated
    /\ ~loop.synced
    /\ env_T % SyncPeriod # 0
    /\ heap["q"] # heap[q_targ_object]

(***************************************************************************)
(* Claims about the Ape-X worker, checked under SpecApex.                  *)
(***************************************************************************)
\* how often a call occurs in a sequence of calls
Count(calls, name) == Cardinality({i \in DOMAIN calls : calls[i] = name})

\* C11: every call of ApexWorker.learn completes: it runs q_updater.update
\* exactly once, writes the td_error back as the priority of the batch's idx
\* exactly once, and returns the metrics of the update.
C11_LearnCompletes ==
    apex.learn # NoLearn =>
        /\ apex.learn.raised = NoException
        /\ Count(apex.learn.calls, "q_updater.update") = 1
        /\ Len(apex.learn.priority_writes) = 1
        /\ apex.learn.returned = apex.learn.metrics

\* the last k entries of the buffer
LastEntries(k) == SubSeq(buffer, Len(buffer) - k + 1, Len(buffer))

\* C15: every call of ApexWorker.trace adds the transition to the tracer and
\* then makes exactly one q_targ.soft_update(q, tau=0.001), whether or not
\* done is true and whether or not a learning update has occurred; only a
\* call with done true flushes the tracer and adds its batches to the buffer,
\* each with its td_error as priority, and after it the tracer holds no
\* pending transition.
C15_TraceSyncsAlwaysFlushesOnDone ==
    apex.trace # NoTrace =>
        /\ apex.trace.calls[1] = "tracer.add"
        /\ apex.trace.calls[2] = "q_targ.soft_update"
        /\ Count(apex.trace.calls, "q_targ.soft_update") = 1
        /\ worker_tau * 1000 = TauDen
        /\ Count(apex.trace.calls, "tracer.flush") = (IF apex.trace.done THEN 1 ELSE 0)
        /\ Count(apex.trace.calls, "buffer_add") = (IF apex.trace.done THEN 1 ELSE 0)
        /\ apex.trace.done =>
              /\ tracer.deque = <<>>
              /\ Len(apex.trace.added) = apex.trace.pending
              /\ LastEntries(apex.trace.pending) = apex.trace.added
              /\ \A i \in DOMAIN apex.trace.added :
                    apex.trace.added[i].priority >= 0
        /\ ~apex.trace.done =>
              /\ apex.trace.added = <<>>
              /\ Len(tracer.deque) = apex.trace.pending

C15_Witness ==
    /\ apex.trace # NoTrace
    /\ apex.trace.done
    /\ apex.trace.pending = 2
    /\ apex.learn # NoLearn
    /\ heap["q"] # heap[q_targ_object]
    /\ tracer.deque = <<>>
    /\ Len(buffer) = 3

(***************************************************************************)
(* Claims about MetaPolicyEnv, checked under SpecMeta.                     *)
(***************************************************************************)
LastStep == meta.last

ValidMetaAction(a_meta) == a_meta \in 0..(Len(meta.arms) - 1)

\* C12: every successful step(a_meta) steps the wrapped environment exactly
\* once, with the action that arm a_meta returned for the observation the
\* preceding reset or step produced; the returned info has 'a' equal to that
\* action and 'logp' equal to the arm's log-propensity, or 0 when the arm
\* has no return_logp.
C12_StepUsesSelectedArm ==
    (LastStep # NoStep /\ LastStep.raised = NoException) =>
        LET arm == meta.arms[LastStep.a_meta + 1]
            out == arm_call(arm, LastStep.env_obs)
        IN  /\ LastStep.s_before = LastStep.env_obs
            /\ LastStep.env_actions = <<out.a>>
            /\ Len(LastStep.arm_calls) = 1
            /\ LastStep.arm_calls[1].arm = arm
            /\ \A p \in LastStep.info :
                  /\ p[1] = "a" => p[2] = out.a
                  /\ p[1] = "logp" => p[2] = (IF arm.return_logp THEN out.logp ELSE 0)
            /\ \E p \in LastStep.info : p[1] = "a"
            /\ \E p \in LastStep.info : p[1] = "logp"

C12_Witness ==
    /\ LastStep # NoStep
    /\ LastStep.raised = NoException
    /\ LastStep.a_meta = 1
    /\ meta.arms[1] # meta.arms[2]
    /\ ~meta.arms[2].return_logp
    /\ arm_call(meta.arms[1], LastStep.env_obs).a # arm_call(meta.arms[2], LastStep.env_obs).a
    /\ meta.env_steps = 2
    /\ <<"lives", 3>> \in LastStep.info

\* C18: step(a_meta) fails with an assertion error, calls no arm, does not
\* step the wrapped environment and leaves the stored observation as it was,
\* whenever a_meta is not one of 0..len(arms)-1 or reset() has not been
\* called; after a reset(), a step with a valid a_meta is accepted.
C18_StepPreconditions ==
    LastStep # NoStep =>
        IF ~ValidMetaAction(LastStep.a_meta) \/ LastStep.s_before = NoObs
        THEN /\ LastStep.raised = "AssertionError"
             /\ LastStep.arm_calls = <<>>
             /\ LastStep.env_actions = <<>>
             /\ LastStep.s_after = LastStep.s_before
        ELSE LastStep.raised = NoException

C18_Witness ==
    /\ LastStep # NoStep
    /\ LastStep.a_meta = -1
    /\ LastStep.s_before # NoObs
    /\ LastStep.raised = "AssertionError"
    /\ meta.env_steps = 1
    /\ meta._s = LastStep.s_before

(***************************************************************************)
(* Claims about the DQN loop's warm-up and drain.                          *)
(***************************************************************************)
\* C13: buffer.sample(batch_size=32) and qlearning.update run only in states
\* where len(buffer) exceeds the warm-up; the buffer is never sampled while
\* it holds fewer batches than the batch size.
C13_SampleOnlyAfterWarmUp ==
    /\ loop.pc # "ValueError"
    /\ loop.updated => (Len(buffer) > WarmUp /\ Len(buffer) >= BatchSize)

C13_Witness ==
    /\ loop.updated
    /\ Len(buffer) = WarmUp + 1
    /\ loop.pc = "sync"

RECURSIVE AddAll(_, _)
AddAll(buf, batches) ==
    IF batches = <<>> THEN buf
    ELSE AddAll(buffer_add(buf, Head(batches), Capacity), Tail(batches))

\* the step's drain is over
Drained == loop.pc \in {"learn", "sync", "brk"}

\* C14: the drain loop after each tracer.add terminates; when it is over the
\* tracer has no ready batch and the buffer has received each batch the
\* tracer made available, once and in emission order; the step's
\* sample/update runs only after that.
C14_DrainCompletes ==
    /\ [](Drained =>
             /\ ~NStep_bool(tracer)
             /\ emitted = loop.avail
             /\ buffer = AddAll(loop.buf0, loop.avail))
    /\ [](loop.pc = "drain" =>
             /\ Len(emitted) <= Len(loop.avail)
             /\ emitted = SubSeq(loop.avail, 1, Len(emitted))
             /\ buffer = AddAll(loop.buf0, emitted)
             /\ ~loop.updated)
    /\ (loop.pc = "drain" ~> loop.pc = "learn")

C14_Witness ==
    /\ loop.pc = "sync"
    /\ loop.updated
    /\ Len(loop.avail) = 2
    /\ emitted = loop.avail
    /\ Len(loop.buf0) = Capacity

\* a batch whose S_next is its own S (no bootstrap) or the observation the
\* step from S led to; the observation of a reset is neither
WithinEpisode(batch) ==
    \/ batch.S_next = batch.S
    \/ batch.S_next = env_step(batch.S, batch.A, 0, FALSE).s_next

BranchTaken ==
    IF ret.evals # <<>> /\ ret.evals[1] = "q_targ.function_type2"
    THEN "discrete" ELSE "continuous"

\* the branch the successful constructor call validated
BranchValidated == IF ctor.q.action_space = "Discrete" THEN "discrete" ELSE "continuous"

\* C16 as stated: the branch is resolved once at construction and not
\* re-checked per call; every target_func call takes the branch the
\* construction-time check validated, and the continuous branch never runs
\* with pi_targ absent.
C16_Original ==
    InCall =>
        /\ call.checks = <<>>
        /\ BranchTaken = BranchValidated
        /\ ret.kind # "AttributeError"

\* C16 as amended: every target_func call tests the action space again
\* (line 131), with the result the constructor's test had, so it takes the
\* branch the construction-time check validated and the continuous branch
\* never runs with pi_targ absent.
C16_BranchMatchesConstruction ==
    InCall =>
        /\ Len(call.checks) = 1
        /\ call.checks[1].result = (ctor.q.action_space = "Discrete")
        /\ BranchTaken = BranchValidated
        /\ ret.kind # "AttributeError"
        /\ BranchTaken = "continuous" => updater.pi_targ # None

C16_Witness ==
    /\ InCall
    /\ ctor.raised = NoException
    /\ ctor.q.action_space = "Box"
    /\ BranchTaken = "continuous"
    /\ ret.kind = "return"
    /\ Len(call.checks) = 1

====
